---- MODULE Spec2Model ----
(***************************************************************************)
(* Model of qunetsim/backends/qutip_backend.py: the QuTipBackend facade,   *)
(* its two singleton registries (Hosts, EntanglementIDs, both SafeDict     *)
(* subclasses) and its interface methods.  Threads execute the registry    *)
(* code one source line at a time, so that the interleavings the Python    *)
(* interpreter allows between two lines are behaviours of the model.       *)
(***************************************************************************)
EXTENDS Naturals, Integers, Sequences, FiniteSets, TLC

\* ---------------------------------------------------------------- bounds
\* QuTipBackend objects that may be constructed.
MaxBackends == 2
\* Host objects of the environment; host i has id HostId(i).
MaxHosts == 3

Threads == {"t1", "t2"}
Regs == {"Hosts", "EntanglementIDs"}
HostIds == {"A", "B"}
QIds == {"e1"}

\* Python's None, for a reference to a registry object (objects are 1, 2, ...).
None == 0

\* The environment's hosts: host.host_id.  Hosts 1 and 3 carry the same id.
HostId(h) == IF h % 2 = 1 THEN "A" ELSE "B"
HostObjs == 1..MaxHosts

VARIABLES
    instance,   \* instance[r]: the class attribute __instance of registry r
    objs,       \* objs[r]: the objects of class r allocated so far
    backends,   \* the QuTipBackend objects: their _hosts, _entaglement_qubits
    pc,         \* pc[t]: the source line thread t is about to execute
    frame,      \* frame[t]: the locals of the call thread t is in
    last        \* the call that completed last, with its outcome

vars == <<instance, objs, backends, pc, frame, last>>

EmptyDict == [k \in {} |-> None]

\* An allocated object whose SafeDict.__init__ has not run: no lock, no dict.
RawObject == [initialised |-> FALSE, dict |-> EmptyDict]

IdleFrame == [top |-> "idle", reg |-> "Hosts", self |-> None, hosts |-> None,
              live |-> FALSE]

NoCall == [op |-> "none", reg |-> "Hosts", out |-> "none",
           val |-> None, arg |-> <<>>]

Done(op, r, out, val, arg) ==
    [op |-> op, reg |-> r, out |-> out, val |-> val, arg |-> arg]

Init ==
    /\ instance = [r \in Regs |-> None]
    /\ objs = [r \in Regs |-> <<>>]
    /\ backends = <<>>
    /\ pc = [t \in Threads |-> "idle"]
    /\ frame = [t \in Threads |-> IdleFrame]
    /\ last = NoCall

\* ------------------------------------------------- SafeDict (safe_dict.py)
\* SafeDict.__init__(self): sets up the lock and the empty storage.
SafeDict__init__(o) == [o EXCEPT !.initialised = TRUE, !.dict = EmptyDict]

\* SafeDict.add_to_dict(key, value), as one critical section.  Without the
\* lock attribute (SafeDict.__init__ has not run) the call fails; an existing
\* key is not overwritten.
add_to_dict_out(o, key) ==
    IF ~o.initialised THEN "AttributeError"
    ELSE IF key \in DOMAIN o.dict THEN "DuplicateKey"
    ELSE "return"

add_to_dict(o, key, value) ==
    IF add_to_dict_out(o, key) = "return"
    THEN [o EXCEPT !.dict = [k \in DOMAIN o.dict \cup {key} |->
                                IF k = key THEN value ELSE o.dict[k]]]
    ELSE o

\* ------------------------------------------- Hosts / EntanglementIDs
\* Mutant of get_instance_found: the test is lost and every call constructs.
get_instance_found_always_constructs(r) == FALSE

\* Line 32 / 49: `if <class>.__instance is not None` in get_instance().
get_instance_found(r) == instance[r] # None

\* Mutant of init_instance_exists: the guard of __init__ is lost.
init_instance_exists_unguarded(r) == FALSE

\* Line 38 / 55: `if <class>.__instance is not None` in __init__().
init_instance_exists(r) == instance[r] # None

\* The object `<class>()` allocates is local to its constructor's frame until
\* line 40 / 57 publishes it: it gets its place in objs there.
NewObject(r) == Len(objs[r]) + 1

Constructing == {u \in Threads : frame[u].top = "backend"}

\* The call thread t is in returns val to its caller.
Return(t, val) ==
    LET f == frame[t] IN
    CASE f.top = "get_instance" ->
           /\ last' = Done("get_instance", f.reg, "return", val, <<>>)
           /\ pc' = [pc EXCEPT ![t] = "idle"]
           /\ frame' = [frame EXCEPT ![t] = IdleFrame]
           /\ UNCHANGED backends
      [] f.top = "construct" ->
           /\ last' = Done("construct", f.reg, "return", val, <<>>)
           /\ pc' = [pc EXCEPT ![t] = "idle"]
           /\ frame' = [frame EXCEPT ![t] = IdleFrame]
           /\ UNCHANGED backends
      [] f.top = "backend" /\ f.reg = "Hosts" ->
           \* line 61 done: self._hosts is set; line 62 calls get_instance()
           /\ frame' = [frame EXCEPT ![t] = [f EXCEPT !.hosts = val,
                                   !.reg = "EntanglementIDs", !.self = None]]
           /\ pc' = [pc EXCEPT ![t] = "gi_test"]
           /\ UNCHANGED <<backends, last>>
      [] f.top = "backend" /\ f.reg = "EntanglementIDs" ->
           \* line 62 done: self._entaglement_qubits is set; the object exists
           /\ backends' = Append(backends, [hosts |-> f.hosts, ents |-> val])
           /\ last' = Done("QuTipBackend", f.reg, "return",
                           Len(backends) + 1, <<>>)
           /\ pc' = [pc EXCEPT ![t] = "idle"]
           /\ frame' = [frame EXCEPT ![t] = IdleFrame]

\* The call thread t is in raises exc, which no frame of the registry code
\* or of QuTipBackend.__init__ catches: it reaches the thread's caller.
Raise(t, exc) ==
    LET f == frame[t]
        op == IF f.top = "backend" THEN "QuTipBackend" ELSE f.top
    IN  /\ last' = Done(op, f.reg, exc, None, <<>>)
        /\ pc' = [pc EXCEPT ![t] = "idle"]
        /\ frame' = [frame EXCEPT ![t] = IdleFrame]
        /\ UNCHANGED backends

\* A thread calls <class>.get_instance().
Call_get_instance(t, r) ==
    /\ pc[t] = "idle"
    /\ pc' = [pc EXCEPT ![t] = "gi_test"]
    /\ frame' = [frame EXCEPT ![t] = [IdleFrame EXCEPT !.top = "get_instance",
                                                        !.reg = r]]
    /\ UNCHANGED <<instance, objs, backends, last>>

\* Lines 32, 34-35 / 49, 51-52: the test of get_instance(), and in its else
\* branch the call `<class>()`, which allocates the object.
get_instance_test(t) ==
    /\ pc[t] = "gi_test"
    /\ IF get_instance_found(frame[t].reg)
       THEN /\ pc' = [pc EXCEPT ![t] = "gi_return"]
            /\ UNCHANGED <<objs, frame>>
       ELSE /\ pc' = [pc EXCEPT ![t] = "init_test"]
            /\ UNCHANGED <<objs, frame>>
    /\ UNCHANGED <<instance, backends, last>>

\* Line 33 / 50: `return <class>.__instance`, a second read of the attribute.
get_instance_return(t) ==
    /\ pc[t] = "gi_return"
    /\ Return(t, instance[frame[t].reg])
    /\ UNCHANGED <<instance, objs>>

\* A thread constructs the registry directly: `<class>()`.
Call_construct(t, r) ==
    /\ pc[t] = "idle"
    /\ pc' = [pc EXCEPT ![t] = "init_test"]
    /\ frame' = [frame EXCEPT ![t] = [IdleFrame EXCEPT !.top = "construct",
                   !.reg = r, !.live = (instance[r] # None)]]
    /\ UNCHANGED <<instance, objs, backends, last>>

\* Lines 38-39 / 55-56: __init__ raises when an instance is registered.
init_test(t) ==
    /\ pc[t] = "init_test"
    /\ IF init_instance_exists(frame[t].reg)
       THEN Raise(t, "Exception")
       ELSE /\ pc' = [pc EXCEPT ![t] = "init_assign"]
            /\ UNCHANGED <<frame, backends, last>>
    /\ UNCHANGED <<instance, objs>>

\* Line 40 / 57: `<class>.__instance = self`.
init_assign(t) ==
    /\ pc[t] = "init_assign"
    /\ objs' = [objs EXCEPT ![frame[t].reg] = Append(@, RawObject)]
    /\ frame' = [frame EXCEPT ![t].self = NewObject(frame[t].reg)]
    /\ instance' = [instance EXCEPT ![frame[t].reg] = NewObject(frame[t].reg)]
    /\ pc' = [pc EXCEPT ![t] = "init_SafeDict"]
    /\ UNCHANGED <<backends, last>>

\* Line 41 / 58: `SafeDict.__init__(self)`; then __init__ returns and the new
\* object is the value of `<class>()`, which get_instance() returns (line 35).
init_SafeDict(t) ==
    /\ pc[t] = "init_SafeDict"
    /\ objs' = [objs EXCEPT ![frame[t].reg][frame[t].self] = SafeDict__init__(@)]
    /\ Return(t, frame[t].self)
    /\ UNCHANGED instance

\* ------------------------------------------------------- QuTipBackend
\* Lines 60-61: QuTipBackend() starts with Hosts.get_instance().
Call_QuTipBackend(t) ==
    /\ pc[t] = "idle"
    /\ Len(backends) + Cardinality(Constructing) < MaxBackends
    /\ pc' = [pc EXCEPT ![t] = "gi_test"]
    /\ frame' = [frame EXCEPT ![t] = [IdleFrame EXCEPT !.top = "backend",
                                                        !.reg = "Hosts"]]
    /\ UNCHANGED <<instance, objs, backends, last>>

Backends == 1..Len(backends)

\* Lines 64-69: start(**kwargs) is `pass`.
start(t, b) ==
    /\ pc[t] = "idle"
    /\ last' = Done("start", "Hosts", "return", None, <<>>)
    /\ UNCHANGED <<instance, objs, backends, pc, frame>>

\* Mutant of stop: stopping the backend empties its host registry.
stop_clears_hosts(t, b) ==
    /\ pc[t] = "idle"
    /\ objs' = [objs EXCEPT !["Hosts"][backends[b].hosts].dict = EmptyDict]
    /\ last' = Done("stop", "Hosts", "return", None, <<>>)
    /\ UNCHANGED <<instance, backends, pc, frame>>

\* Lines 71-75: stop() is `pass`.
stop(t, b) ==
    /\ pc[t] = "idle"
    /\ last' = Done("stop", "Hosts", "return", None, <<>>)
    /\ UNCHANGED <<instance, objs, backends, pc, frame>>

\* Lines 77-84: self._hosts.add_to_dict(host.host_id, host).
add_host(t, b, host) ==
    /\ pc[t] = "idle"
    /\ LET o == backends[b].hosts IN
       /\ objs' = [objs EXCEPT !["Hosts"][o] = add_to_dict(@, HostId(host), host)]
       /\ last' = Done("add_host", "Hosts",
                       add_to_dict_out(objs["Hosts"][o], HostId(host)), host, <<>>)
    /\ UNCHANGED <<instance, backends, pc, frame>>

\* --------------------------------------------- the interface methods
\* The body every interface method has: `raise EnvironmentError("This is
\* only an interface, not an actual implementation!")`.
NotImplemented == "EnvironmentError"

\* Python's binding of a call's n arguments (self not counted) to a method
\* with `required` parameters and `optional` defaulted ones: a call that
\* does not fit raises TypeError before the body runs.
Bind(required, optional, n, body) ==
    IF required <= n /\ n <= required + optional THEN body ELSE "TypeError"

create_qubit(n) == Bind(1, 0, n, NotImplemented)
send_qubit_to(n) == Bind(3, 0, n, NotImplemented)
create_EPR(n) == Bind(2, 2, n, NotImplemented)
receive_epr(n) == Bind(2, 2, n, NotImplemented)
I(n) == Bind(1, 0, n, NotImplemented)
X(n) == Bind(1, 0, n, NotImplemented)
Y(n) == Bind(1, 0, n, NotImplemented)
Z(n) == Bind(1, 0, n, NotImplemented)
H(n) == Bind(1, 0, n, NotImplemented)
T(n) == Bind(1, 0, n, NotImplemented)
rx(n) == Bind(2, 0, n, NotImplemented)
ry(n) == Bind(2, 0, n, NotImplemented)
\* def rz(self, phi): one parameter.
rz(n) == Bind(1, 0, n, NotImplemented)
cnot(n) == Bind(2, 0, n, NotImplemented)
cphase(n) == Bind(2, 0, n, NotImplemented)
custom_gate(n) == Bind(2, 0, n, NotImplemented)
custom_controlled_gate(n) == Bind(3, 0, n, NotImplemented)
custom_controlled_two_qubit_gate(n) == Bind(4, 0, n, NotImplemented)
custom_two_qubit_gate(n) == Bind(3, 0, n, NotImplemented)
density_operator(n) == Bind(1, 0, n, NotImplemented)
measure(n) == Bind(2, 0, n, NotImplemented)
release(n) == Bind(1, 0, n, NotImplemented)

GateMethods == {"I", "X", "Y", "Z", "H", "T", "rx", "ry", "rz", "cnot",
                "cphase", "custom_gate", "custom_controlled_gate",
                "custom_two_qubit_gate", "custom_controlled_two_qubit_gate",
                "density_operator", "measure"}
EntanglementMethods == {"create_EPR", "receive_epr"}

\* The outcome of backend.<m>(...) called with n arguments.
Invoke(m, n) ==
    CASE m = "create_qubit" -> create_qubit(n)
      [] m = "send_qubit_to" -> send_qubit_to(n)
      [] m = "create_EPR" -> create_EPR(n)
      [] m = "receive_epr" -> receive_epr(n)
      [] m = "I" -> I(n)
      [] m = "X" -> X(n)
      [] m = "Y" -> Y(n)
      [] m = "Z" -> Z(n)
      [] m = "H" -> H(n)
      [] m = "T" -> T(n)
      [] m = "rx" -> rx(n)
      [] m = "ry" -> ry(n)
      [] m = "rz" -> rz(n)
      [] m = "cnot" -> cnot(n)
      [] m = "cphase" -> cphase(n)
      [] m = "custom_gate" -> custom_gate(n)
      [] m = "custom_controlled_gate" -> custom_controlled_gate(n)
      [] m = "custom_controlled_two_qubit_gate" ->
             custom_controlled_two_qubit_gate(n)
      [] m = "custom_two_qubit_gate" -> custom_two_qubit_gate(n)
      [] m = "density_operator" -> density_operator(n)
      [] m = "measure" -> measure(n)
      [] m = "release" -> release(n)

\* The number of arguments a caller passes to each gate, qubit transfer and
\* release method: the call shapes of the backend contract, rz(qubit, phi)
\* among them.
ContractArgs(m) ==
    CASE m \in {"I", "X", "Y", "Z", "H", "T", "density_operator", "release"} -> 1
      [] m \in {"rx", "ry", "rz", "cnot", "cphase", "custom_gate", "measure"} -> 2
      [] m \in {"custom_controlled_gate", "custom_two_qubit_gate",
                "send_qubit_to"} -> 3
      [] m = "custom_controlled_two_qubit_gate" -> 4

\* A thread calls a gate method, send_qubit_to or release on a backend, with
\* the arguments of the contract; rz is also called as its definition takes
\* it, rz(phi).
Call_gate(t, m, n) ==
    /\ pc[t] = "idle"
    /\ Backends # {}
    /\ n = ContractArgs(m) \/ (m = "rz" /\ n + 1 = ContractArgs(m))
    /\ last' = Done(m, "Hosts", Invoke(m, n), None, <<n>>)
    /\ UNCHANGED <<instance, objs, backends, pc, frame>>

\* A thread calls create_qubit(host_id).
Call_create_qubit(t, h) ==
    /\ pc[t] = "idle"
    /\ Backends # {}
    /\ last' = Done("create_qubit", "Hosts", Invoke("create_qubit", 1),
                    None, <<h>>)
    /\ UNCHANGED <<instance, objs, backends, pc, frame>>

\* A thread calls create_EPR(host_a_id, host_b_id, q_id).
Call_create_EPR(t, a, b, q) ==
    /\ pc[t] = "idle"
    /\ Backends # {}
    /\ last' = Done("create_EPR", "EntanglementIDs",
                    Invoke("create_EPR", 3), None, <<a, b, q>>)
    /\ UNCHANGED <<instance, objs, backends, pc, frame>>

\* A thread calls receive_epr(host_id, sender_id, q_id).
Call_receive_epr(t, h, sender, q) ==
    /\ pc[t] = "idle"
    /\ Backends # {}
    /\ last' = Done("receive_epr", "EntanglementIDs",
                    Invoke("receive_epr", 3), None, <<h, sender, q>>)
    /\ UNCHANGED <<instance, objs, backends, pc, frame>>

\* ------------------------------------------------------ specifications
\* The registry code reached through get_instance(), line by line.
LazyStep(t) ==
    \/ \E r \in Regs : Call_get_instance(t, r)
    \/ get_instance_test(t)
    \/ get_instance_return(t)
    \/ init_test(t)
    \/ init_assign(t)
    \/ init_SafeDict(t)
    \/ Call_QuTipBackend(t)
    \/ \E b \in Backends, host \in HostObjs : add_host(t, b, host)

\* The registry code, direct construction included.
RegistryStep(t) ==
    \/ LazyStep(t)
    \/ \E r \in Regs : Call_construct(t, r)

\* The methods of a backend object that touch no shared state.
MethodStep(t) ==
    \/ \E b \in Backends : start(t, b)
    \/ \E b \in Backends : stop(t, b)
    \/ \E m \in GateMethods \cup {"send_qubit_to", "release"}, n \in 1..4 :
          Call_gate(t, m, n)
    \/ \E h \in HostIds : Call_create_qubit(t, h)
    \/ \E a, b \in HostIds, q \in QIds : Call_create_EPR(t, a, b, q)
    \/ \E h, sender \in HostIds, q \in QIds : Call_receive_epr(t, h, sender, q)

\* Threads interleave between any two lines of the registry code.
Next == \E t \in Threads : RegistryStep(t)
Spec == Init /\ [][Next]_vars

\* As Spec, with threads that reach the registries through get_instance()
\* only (by themselves or through QuTipBackend()).
LazyNext == \E t \in Threads : LazyStep(t)
LazySpec == Init /\ [][LazyNext]_vars

\* The whole interface, its calls made one after the other: one thread makes
\* every call.
MainThread == {"t1"}
SeqNext == \E t \in MainThread : RegistryStep(t) \/ MethodStep(t)
SeqSpec == Init /\ [][SeqNext]_vars

\* ------------------------------------------------------------- views
\* The registered singleton's mapping (empty while there is none, or while
\* its storage is not set up).
Registry(r) ==
    IF instance[r] = None THEN EmptyDict ELSE objs[r][instance[r]].dict
HostRegistry == Registry("Hosts")
EntanglementRegistry == Registry("EntanglementIDs")

\* The objects get_instance() of r has returned and its callers still hold.
HeldRefs(r) ==
    (IF last.op = "get_instance" /\ last.reg = r /\ last.out = "return"
     THEN {last.val} ELSE {})
    \cup {IF r = "Hosts" THEN backends[b].hosts ELSE backends[b].ents :
            b \in Backends}
    \cup {frame[t].hosts : t \in {u \in Threads :
            r = "Hosts" /\ frame[u].top = "backend"
            /\ frame[u].reg = "EntanglementIDs"}}

\* The objects of r whose constructor body ran to completion.
Completed(r) == {i \in 1..Len(objs[r]) : objs[r][i].initialised}

\* ------------------------------------------------------------ claims

\* C1: for both registries, constructing the registry directly while an
\* instance is registered fails with an exception, and the failing step
\* leaves the registered singleton as it was.
C1_DirectConstructionFails ==
    [][\A t \in Threads :
         (init_test(t) /\ frame[t].top = "construct" /\ frame[t].live)
            => /\ last'.op = "construct"
               /\ last'.out = "Exception"
               /\ instance' = instance]_vars

\* C1 witness: a direct construction of EntanglementIDs has just failed while
\* both registries have their instance.
C1_Witness ==
    /\ last.op = "construct" /\ last.out = "Exception"
    /\ last.reg = "EntanglementIDs"
    /\ \A r \in Regs : instance[r] # None

\* C2, as claimed: with threads that only use get_instance(), every call
\* returns normally, all calls return the identical instance, and the
\* constructor body completes at most once per registry.
C2_LazyConstructionOnce ==
    /\ last.op \in {"get_instance", "QuTipBackend"} => last.out = "return"
    /\ \A r \in Regs : Cardinality(HeldRefs(r)) <= 1
    /\ \A r \in Regs : Cardinality(Completed(r)) <= 1

\* C10, as claimed: an instance get_instance() returns has had its
\* SafeDict.__init__ completed.
C10_ReturnedInstanceInitialised ==
    (last.op = "get_instance" /\ last.out = "return")
        => objs[last.reg][last.val].initialised

\* Some thread calls method m of the facade (an action).
Called(m) ==
    \E t \in Threads :
        \/ m \in GateMethods /\ Call_gate(t, m, ContractArgs(m))
        \/ m = "create_EPR" /\ \E a, b \in HostIds, q \in QIds :
                                    Call_create_EPR(t, a, b, q)
        \/ m = "receive_epr" /\ \E h, sender \in HostIds, q \in QIds :
                                    Call_receive_epr(t, h, sender, q)

\* C3, as claimed: every gate method and every entanglement method, called
\* as the contract gives it, fails with the not-implemented error and leaves
\* both registries unchanged.
C3_FacadeNotImplemented ==
    [][\A m \in GateMethods \cup EntanglementMethods :
         Called(m) => /\ last'.out = NotImplemented
                      /\ UNCHANGED <<instance, objs>>]_vars

\* C4, as claimed: create_EPR(A, B, q_id) returns a qubit and leaves a record
\* under q_id in the entanglement registry; a receive_epr(B, A, q_id) that
\* finds the record returns a qubit and leaves it Fulfilled.
C4_CreateThenReceive ==
    /\ last.op = "create_EPR"
         => /\ last.out = "return"
            /\ last.arg[3] \in DOMAIN EntanglementRegistry
    /\ (last.op = "receive_epr" /\ last.arg[3] \in DOMAIN EntanglementRegistry)
         => /\ last.out = "return"
            /\ EntanglementRegistry[last.arg[3]] = "Fulfilled"

\* C6, as claimed: create_qubit(H) returns a qubit (which H then owns).
C6_CreateQubitReturnsOwned ==
    last.op = "create_qubit" => last.out = "return"

\* C7: calls made one after the other never remove a registered host: every
\* host_id the host registry maps, it maps to the same host after the step.
C7_HostNeverRemoved ==
    [][\A k \in DOMAIN HostRegistry :
         /\ k \in DOMAIN HostRegistry'
         /\ HostRegistry'[k] = HostRegistry[k]]_vars

\* C7 witness: host 1 is registered under "A", a second backend exists, and
\* the call that just ended is the add_host of host 3, another host whose id
\* is "A" as well.
C7_Witness ==
    /\ "A" \in DOMAIN HostRegistry
    /\ HostRegistry["A"] = 1
    /\ Len(backends) = 2
    /\ last.op = "add_host" /\ last.val = 3

\* C8, as claimed: rz(qubit, phi) has the outcome of rx(qubit, phi) and of
\* ry(qubit, phi).
C8_RotationGatesAlike ==
    (last.op = "rz" /\ last.arg = <<2>>)
        => /\ last.out = rx(2)
           /\ last.out = ry(2)

\* C9: with backends constructed one after the other, every backend holds
\* the registered Hosts and EntanglementIDs instances, no construction of a
\* backend raises, and all backends see the same hosts.
C9_BackendsShareRegistries ==
    /\ \A b \in Backends :
         /\ backends[b].hosts = instance["Hosts"]
         /\ backends[b].ents = instance["EntanglementIDs"]
    /\ last.op = "QuTipBackend" => last.out = "return"
    /\ \A b1, b2 \in Backends :
         objs["Hosts"][backends[b1].hosts].dict
            = objs["Hosts"][backends[b2].hosts].dict

\* C9 witness: a second backend has just been constructed after a host was
\* added through the first.
C9_Witness ==
    /\ Len(backends) = 2
    /\ last.op = "QuTipBackend" /\ last.out = "return"
    /\ DOMAIN objs["Hosts"][backends[2].hosts].dict # {}

====
